---- MODULE Spec2Model ----
(***************************************************************************)
(* A model of isort's finders (src/isort/finders.py): the finder classes   *)
(* that classify a module name into a section, and the FindersManager that *)
(* builds them and consults them in order.                                 *)
(*                                                                         *)
(* Python strings that the code inspects character by character (module    *)
(* names, glob patterns, regular expressions, file names, paths) are       *)
(* sequences of one-character strings.  Section names and configuration    *)
(* keys, which the code only compares and looks up, are TLA+ strings.      *)
(***************************************************************************)
EXTENDS Integers, Sequences, FiniteSets, TLC

VARIABLES
    config,   \* the configuration mapping handed to the constructors
    fs,       \* the filesystem: path -> [kind, list, readable]
    env,      \* the optional capabilities and what the interpreter reports
    arg,      \* the `finders` argument of FindersManager.__init__
    mgr,      \* the FindersManager object
    finder,   \* a finder object used on its own
    call,     \* the last call made and its outcome
    seen      \* module name -> the outcomes find has had for it

vars == <<config, fs, env, arg, mgr, finder, call, seen>>

(***************************************************************************)
(* Bounds of the model.                                                    *)
(***************************************************************************)
MaxForced == 2     \* longest forced_separate list enumerated
MaxKnown == 1      \* longest known_* list enumerated per section
MaxFinders == 2    \* longest explicit finder list enumerated
MaxEntries == 3    \* longest enumerated listing of the scanned directory

(***************************************************************************)
(* Python values.                                                          *)
(***************************************************************************)
\* What a call does: returns None, returns a value, or raises.
None == [kind |-> "none", val |-> <<>>]
Value(v) == [kind |-> "value", val |-> v]
Raise(e) == [kind |-> "raise", val |-> <<e>>]
Section(name) == Value(<<name>>)

\* A local variable that has not been assigned yet.
Unbound == [kind |-> "unbound", val |-> <<>>]

SeqsUpTo(S, n) == UNION {[1..k -> S] : k \in 0..n}

Max(S) == CHOOSE x \in S : \A y \in S : y <= x
Min(S) == CHOOSE x \in S : \A y \in S : x <= y

(***************************************************************************)
(* str methods.                                                            *)
(***************************************************************************)
startswith(s, p) == Len(s) >= Len(p) /\ SubSeq(s, 1, Len(p)) = p
endswith(s, p) == Len(s) >= Len(p) /\ SubSeq(s, Len(s) - Len(p) + 1, Len(s)) = p
\* `p in s`
contains(s, p) == \E i \in 1..(Len(s) - Len(p) + 1) : SubSeq(s, i, i + Len(p) - 1) = p

\* s.replace(c, r) for a one-character c
RECURSIVE replace(_, _, _)
replace(s, c, r) ==
    IF s = <<>> THEN <<>>
    ELSE (IF Head(s) = c THEN r ELSE <<Head(s)>>) \o replace(Tail(s), c, r)

\* s.split(c): the pieces between the occurrences of c
RECURSIVE split(_, _)
split(s, c) ==
    IF \A i \in 1..Len(s) : s[i] # c THEN <<s>>
    ELSE LET i == Min({j \in 1..Len(s) : s[j] = c})
         IN <<SubSeq(s, 1, i - 1)>> \o split(SubSeq(s, i + 1, Len(s)), c)

\* c.join(parts)
RECURSIVE join(_, _)
join(c, parts) ==
    IF parts = <<>> THEN <<>>
    ELSE IF Len(parts) = 1 THEN parts[1]
    ELSE parts[1] \o <<c>> \o join(c, Tail(parts))

\* s.partition(c)[0]
partition_head(s, c) == split(s, c)[1]

\* str.lower() on the characters the model uses
LowerChar(c) ==
    CASE c = "A" -> "a"
      [] c = "B" -> "b"
      [] c = "P" -> "p"
      [] OTHER -> c
lower(s) == [i \in 1..Len(s) |-> LowerChar(s[i])]

(***************************************************************************)
(* fnmatch.fnmatch(name, pat) on POSIX: `*` matches any run of characters, *)
(* `?` matches exactly one, anything else matches itself, and the whole    *)
(* name must match.                                                        *)
(***************************************************************************)
RECURSIVE fnmatch(_, _)
fnmatch(name, pat) ==
    IF pat = <<>> THEN name = <<>>
    ELSE IF Head(pat) = "*"
         THEN fnmatch(name, Tail(pat)) \/ (name # <<>> /\ fnmatch(Tail(name), pat))
    ELSE /\ name # <<>>
         /\ (Head(pat) = "?" \/ Head(pat) = Head(name))
         /\ fnmatch(Tail(name), Tail(pat))

(***************************************************************************)
(* re.match(regexp, s) for the regular expressions KnownPatternFinder      *)
(* builds: `^` and `$` anchors, `.` any character, a literal character,    *)
(* and the postfix `*` and `?` on the atom before them.                    *)
(***************************************************************************)
AtomMatch(a, c) == a = "." \/ a = c

RECURSIVE re_match(_, _)
re_match(re, s) ==
    IF re = <<>> THEN TRUE
    ELSE IF Head(re) = "^" THEN re_match(Tail(re), s)
    ELSE IF Head(re) = "$" THEN s = <<>> /\ re_match(Tail(re), s)
    ELSE IF Len(re) >= 2 /\ re[2] = "*"
         THEN \/ re_match(SubSeq(re, 3, Len(re)), s)
              \/ s # <<>> /\ AtomMatch(Head(re), Head(s)) /\ re_match(re, Tail(s))
    ELSE IF Len(re) >= 2 /\ re[2] = "?"
         THEN \/ re_match(SubSeq(re, 3, Len(re)), s)
              \/ /\ s # <<>>
                 /\ AtomMatch(Head(re), Head(s))
                 /\ re_match(SubSeq(re, 3, Len(re)), Tail(s))
    ELSE s # <<>> /\ AtomMatch(Head(re), Head(s)) /\ re_match(Tail(re), Tail(s))

(***************************************************************************)
(* The section registry handed to the finders, and KNOWN_SECTION_MAPPING.  *)
(***************************************************************************)
SECTIONS == <<"FUTURE", "STDLIB", "THIRDPARTY", "FIRSTPARTY", "LOCALFOLDER">>

KNOWN_SECTION_MAPPING ==
    [STDLIB |-> "STANDARD_LIBRARY", FUTURE |-> "FUTURE_LIBRARY",
     FIRSTPARTY |-> "FIRST_PARTY", THIRDPARTY |-> "THIRD_PARTY"]

\* str.lower() of a section's configuration name
name_lower(n) ==
    CASE n = "STANDARD_LIBRARY" -> "standard_library"
      [] n = "FUTURE_LIBRARY" -> "future_library"
      [] n = "FIRST_PARTY" -> "first_party"
      [] n = "THIRD_PARTY" -> "third_party"
      [] n = "LOCALFOLDER" -> "localfolder"
      [] n = "STDLIB" -> "stdlib"
      [] n = "FUTURE" -> "future"
      [] n = "FIRSTPARTY" -> "firstparty"
      [] n = "THIRDPARTY" -> "thirdparty"
      [] OTHER -> n

\* 'known_{0}'.format(KNOWN_SECTION_MAPPING.get(placement, placement).lower())
config_key(placement) ==
    LET known_placement ==
            IF placement \in DOMAIN KNOWN_SECTION_MAPPING
            THEN KNOWN_SECTION_MAPPING[placement] ELSE placement
    IN "known_" \o name_lower(known_placement)

\* config.get(key, default)
config_get(cfg, key, default) == IF key \in DOMAIN cfg THEN cfg[key] ELSE default

(***************************************************************************)
(* The filesystem.                                                         *)
(***************************************************************************)
SEP == "/"

\* A path without its trailing separators (the root stays)
RECURSIVE normpath(_)
normpath(p) ==
    IF Len(p) > 1 /\ p[Len(p)] = SEP THEN normpath(SubSeq(p, 1, Len(p) - 1)) ELSE p

\* os.path.join(path, name) for a relative name
path_join(path, name) ==
    IF path = <<>> \/ path[Len(path)] = SEP THEN path \o name ELSE path \o <<SEP>> \o name

isdir(f, p) == normpath(p) \in DOMAIN f /\ f[normpath(p)].kind = "dir"
isfile(f, p) == normpath(p) \in DOMAIN f /\ f[normpath(p)].kind = "file"
exists(f, p) == normpath(p) \in DOMAIN f

\* os.listdir(p): the names in p, or OSError
listdir_raises(f, p) == ~isdir(f, p) \/ ~f[normpath(p)].readable
listdir(f, p) == f[normpath(p)].list

Dir(names) == [kind |-> "dir", list |-> names, readable |-> TRUE]
LockedDir == [kind |-> "dir", list |-> <<>>, readable |-> FALSE]
File == [kind |-> "file", list |-> <<>>, readable |-> TRUE]

(***************************************************************************)
(* BaseFinder: an object of class cls.  Every finder object has the same   *)
(* fields; a class that does not set one leaves it at its empty value.     *)
(***************************************************************************)
BaseFinder_init(cls, cfg) ==
    [cls |-> cls, config |-> cfg, known_patterns |-> <<>>,
     paths |-> <<>>, virtual_env |-> <<>>, virtual_env_src |-> <<>>,
     stdlib_lib_prefix |-> <<>>, ext_suffix |-> <<>>,
     enabled |-> FALSE, path |-> <<>>, mapping |-> <<>>, names |-> <<>>]

\* What a find returns: its outcome, and the object as the call leaves it.
Found(out, self) == [out |-> out, self |-> self]

(***************************************************************************)
(* ForcedSeparateFinder                                                    *)
(***************************************************************************)
RECURSIVE forced_separate_loop(_, _)
forced_separate_loop(patterns, module_name) ==
    IF patterns = <<>> THEN None
    ELSE LET forced_separate == Head(patterns)
             path_glob == IF ~endswith(forced_separate, <<"*">>)
                          THEN forced_separate \o <<"*">>
                          ELSE forced_separate
         IN IF fnmatch(module_name, path_glob) \/ fnmatch(module_name, <<".">> \o path_glob)
            THEN Value(forced_separate)
            ELSE forced_separate_loop(Tail(patterns), module_name)

forced_separate_returns_glob(self, module_name) ==
    IF "forced_separate" \notin DOMAIN self.config
    THEN Found(Raise("KeyError"), self)
    ELSE LET r == forced_separate_loop(self.config["forced_separate"], module_name)
         IN Found(IF r.kind = "value" /\ ~endswith(r.val, <<"*">>)
                  THEN Value(r.val \o <<"*">>) ELSE r, self)

ForcedSeparateFinder_find(self, module_name) ==
    IF "forced_separate" \notin DOMAIN self.config
    THEN Found(Raise("KeyError"), self)
    ELSE Found(forced_separate_loop(self.config["forced_separate"], module_name), self)

(***************************************************************************)
(* LocalFinder                                                             *)
(***************************************************************************)
LocalFinder_find(self, module_name) ==
    IF startswith(module_name, <<".">>)
    THEN Found(Section("LOCALFOLDER"), self)
    ELSE Found(None, self)

(***************************************************************************)
(* KnownPatternFinder                                                      *)
(***************************************************************************)
\* _parse_known_pattern: a pattern ending in the separator names a directory
\* and stands for its sub-directories; listing it may raise OSError.
parse_known_pattern_raises(f, pattern) ==
    endswith(pattern, <<SEP>>) /\ listdir_raises(f, pattern)

\* The expansion without the isdir filter
parse_known_pattern_keeps_files(f, pattern) ==
    IF endswith(pattern, <<SEP>>) THEN listdir(f, pattern) ELSE <<pattern>>

parse_known_pattern(f, pattern) ==
    IF endswith(pattern, <<SEP>>)
    THEN SelectSeq(listdir(f, pattern), LAMBDA filename : isdir(f, path_join(pattern, filename)))
    ELSE <<pattern>>

\* '^' + known_pattern.replace('*', '.*').replace('?', '.?') + '$'
known_pattern_regexp(known_pattern) ==
    <<"^">> \o replace(replace(known_pattern, "*", <<".", "*">>), "?", <<".", "?">>) \o <<"$">>

RECURSIVE expand_known_patterns(_, _)
expand_known_patterns(f, known_patterns) ==
    IF known_patterns = <<>> THEN <<>>
    ELSE parse_known_pattern(f, Head(known_patterns))
             \o expand_known_patterns(f, Tail(known_patterns))

\* The (regexp, placement) pairs of one section
placement_patterns(cfg, f, placement) ==
    LET known_patterns == expand_known_patterns(f, config_get(cfg, config_key(placement), <<>>))
    IN [i \in 1..Len(known_patterns) |->
           [regexp |-> known_pattern_regexp(known_patterns[i]), placement |-> placement]]

placement_raises(cfg, f, placement) ==
    LET known_patterns == config_get(cfg, config_key(placement), <<>>)
    IN \E i \in 1..Len(known_patterns) : parse_known_pattern_raises(f, known_patterns[i])

reversed(s) == [i \in 1..Len(s) |-> s[Len(s) + 1 - i]]

RECURSIVE all_known_patterns(_, _, _)
all_known_patterns(cfg, f, placements) ==
    IF placements = <<>> THEN <<>>
    ELSE placement_patterns(cfg, f, Head(placements))
             \o all_known_patterns(cfg, f, Tail(placements))

\* __init__: a finder object, or the exception raised
KnownPatternFinder_init(cfg, f) ==
    IF \E i \in 1..Len(SECTIONS) : placement_raises(cfg, f, SECTIONS[i])
    THEN Raise("OSError")
    ELSE Value([BaseFinder_init("KnownPatternFinder", cfg) EXCEPT
                    !.known_patterns = all_known_patterns(cfg, f, reversed(SECTIONS))])

\* The first stored pattern that matches the name, if any
RECURSIVE first_pattern_match(_, _)
first_pattern_match(known_patterns, module_name_to_check) ==
    IF known_patterns = <<>> THEN None
    ELSE IF re_match(Head(known_patterns).regexp, module_name_to_check)
         THEN Section(Head(known_patterns).placement)
    ELSE first_pattern_match(Tail(known_patterns), module_name_to_check)

\* The prefixes '.'.join(parts[:first_k]) for first_k from len(parts) down to 1
RECURSIVE known_pattern_loop(_, _, _)
known_pattern_loop(known_patterns, parts, first_k) ==
    IF first_k < 1 THEN None
    ELSE LET r == first_pattern_match(known_patterns, join(".", SubSeq(parts, 1, first_k)))
         IN IF r.kind = "value" THEN r
            ELSE known_pattern_loop(known_patterns, parts, first_k - 1)

\* The loops the other way round: patterns outside, prefixes inside
RECURSIVE pattern_major_loop(_, _)
pattern_major_loop(known_patterns, parts) ==
    IF known_patterns = <<>> THEN None
    ELSE IF \E k \in 1..Len(parts) :
                re_match(Head(known_patterns).regexp, join(".", SubSeq(parts, 1, k)))
         THEN Section(Head(known_patterns).placement)
    ELSE pattern_major_loop(Tail(known_patterns), parts)

known_pattern_find_pattern_major(self, module_name) ==
    Found(pattern_major_loop(self.known_patterns, split(module_name, ".")), self)

KnownPatternFinder_find(self, module_name) ==
    LET parts == split(module_name, ".")
    IN Found(known_pattern_loop(self.known_patterns, parts, Len(parts)), self)

(***************************************************************************)
(* Calls.                                                                  *)
(***************************************************************************)
NoCall == [op |-> "none", module |-> <<>>, out |-> None, n |-> 0, again |-> FALSE]
Call(op, module, out, n) ==
    [op |-> op, module |-> module, out |-> out, n |-> n, again |-> FALSE]

\* Values of the variables a specification does not use
NoConfig == <<>>
NoFs == <<>>
NoEnv == <<>>
NoArg == <<>>
NoMgr == [status |-> "new", verbose |-> FALSE, finders |-> <<>>]
NoSeen == <<>>

(***************************************************************************)
(* SpecFS: a ForcedSeparateFinder and calls of its find.                   *)
(***************************************************************************)
S_legacy_star == <<"l", "e", "g", "a", "c", "y", "*">>
S_legacy_utils == <<"l", "e", "g", "a", "c", "y", "_", "u", "t", "i", "l", "s">>

FSPatterns == {<<"a">>, <<"a", "*">>, <<".", "a">>, <<"b", "?">>, <<"a", ".", "b">>}
FSModules == {<<"a">>, <<".", "a">>, <<"a", "b">>, <<"a", ".", "b">>, <<"b">>,
              <<".", "b", "a">>, S_legacy_utils}

FSConfigs ==
    {"forced_separate" :> ps : ps \in SeqsUpTo(FSPatterns, MaxForced)}
        \cup {"forced_separate" :> <<S_legacy_star>>, NoConfig}

InitFS ==
    /\ config \in FSConfigs
    /\ finder = Value(BaseFinder_init("ForcedSeparateFinder", config))
    /\ call = NoCall
    /\ fs = NoFs /\ env = NoEnv /\ arg = NoArg /\ mgr = NoMgr /\ seen = NoSeen

FSFind(m) ==
    LET r == ForcedSeparateFinder_find(finder.val, m)
    IN /\ call' = Call("find", m, r.out, 0)
       /\ finder' = Value(r.self)
       /\ UNCHANGED <<config, fs, env, arg, mgr, seen>>

NextFS == \E m \in FSModules : FSFind(m)

SpecFS == InitFS /\ [][NextFS]_vars

(***************************************************************************)
(* SpecKP: a KnownPatternFinder, its construction and calls of its find.   *)
(***************************************************************************)
S_vendor_dir == <<"v", "e", "n", "d", "o", "r", "/">>
S_vendor == <<"v", "e", "n", "d", "o", "r">>
S_acme == <<"a", "c", "m", "e">>
S_readme == <<"r", "e", "a", "d", "m", "e">>
S_acme_sub == <<"a", "c", "m", "e", ".", "s", "u", "b">>
S_foo_bar == <<"f", "o", "o", ".", "b", "a", "r">>
S_foo_bar_baz == <<"f", "o", "o", ".", "b", "a", "r", ".", "b", "a", "z">>
S_foo_qux == <<"f", "o", "o", ".", "q", "u", "x">>

\* vendor/ holds the directories acme and b and the file readme
KPFsVendor ==
    (S_vendor :> Dir(<<S_acme, S_readme, <<"b">>>>))
        @@ (path_join(S_vendor, S_acme) :> Dir(<<>>))
        @@ (path_join(S_vendor, S_readme) :> File)
        @@ (path_join(S_vendor, <<"b">>) :> Dir(<<>>))
\* vendor/ cannot be listed
KPFsLocked == (S_vendor :> LockedDir)

KPPatterns == {<<"a">>, <<"a", ".", "b">>, <<"a", "?">>, <<"a", "*">>, S_vendor_dir, S_foo_bar}
KPModules == {<<"a">>, <<"a", ".", "b">>, <<"a", "b">>, <<"a", "b", ".", "a">>, <<"b">>,
              <<".", "a">>, S_acme_sub, S_foo_bar_baz, S_foo_qux}

KPConfigs ==
    {("known_third_party" :> tp) @@ ("known_first_party" :> fp) :
        tp \in SeqsUpTo(KPPatterns, MaxKnown), fp \in SeqsUpTo(KPPatterns, MaxKnown)}
        \cup {"known_third_party" :> <<S_foo_bar>>,
              "known_third_party" :> <<S_vendor_dir>>,
              "known_thirdparty" :> <<S_vendor_dir>>}

InitKP ==
    /\ config \in KPConfigs
    /\ fs \in {KPFsVendor, KPFsLocked}
    /\ finder = Unbound
    /\ call = NoCall
    /\ env = NoEnv /\ arg = NoArg /\ mgr = NoMgr /\ seen = NoSeen

KPConstruct ==
    /\ finder = Unbound
    /\ finder' = KnownPatternFinder_init(config, fs)
    /\ call' = Call("init", <<>>, None, 0)
    /\ UNCHANGED <<config, fs, env, arg, mgr, seen>>

KPFind(m) ==
    /\ finder.kind = "value"
    /\ LET r == KnownPatternFinder_find(finder.val, m)
       IN /\ call' = Call("find", m, r.out, 0)
          /\ finder' = Value(r.self)
    /\ UNCHANGED <<config, fs, env, arg, mgr, seen>>

NextKP == KPConstruct \/ \E m \in KPModules : KPFind(m)

SpecKP == InitKP /\ [][NextKP]_vars

(***************************************************************************)
(* Properties of ForcedSeparateFinder.find (SpecFS).                       *)
(***************************************************************************)
\* The glob a configured pattern stands for
WithStar(p) == IF endswith(p, <<"*">>) THEN p ELSE p \o <<"*">>

FSCalled == call.op = "find" /\ "forced_separate" \in DOMAIN config

\* The patterns matching m when the dot goes in front of the glob
DotOnGlob(m) ==
    {i \in 1..Len(config["forced_separate"]) :
        LET g == WithStar(config["forced_separate"][i])
        IN fnmatch(m, g) \/ fnmatch(m, <<".">> \o g)}

\* The patterns matching m when the dot goes in front of the module name
DotOnName(m) ==
    {i \in 1..Len(config["forced_separate"]) :
        LET g == WithStar(config["forced_separate"][i])
        IN fnmatch(m, g) \/ fnmatch(<<".">> \o m, g)}

\* C5 (as amended): a pattern gets a trailing '*' if it lacks one; it matches
\* when the module name matches that glob or that glob with a dot put in front
\* of it; the first matching pattern in configured order wins, the value
\* returned is the configured pattern itself, and no match gives no answer.
C5_ForcedSeparateFirstMatch ==
    FSCalled =>
        /\ finder.kind = "value"
        /\ IF DotOnGlob(call.module) = {} THEN call.out = None
           ELSE call.out = Value(config["forced_separate"][Min(DotOnGlob(call.module))])
        /\ (config["forced_separate"] = <<S_legacy_star>> /\ call.module = S_legacy_utils
                => call.out = Value(S_legacy_star))

\* C5 (as claimed): the same with the dot put in front of the module name.
C5_AsClaimed ==
    FSCalled =>
        IF DotOnName(call.module) = {} THEN call.out = None
        ELSE call.out = Value(config["forced_separate"][Min(DotOnName(call.module))])

\* A relative name answered by a pattern without a trailing '*', through the
\* dotted glob only, while a later pattern matches too.
C5_Witness ==
    /\ FSCalled
    /\ Cardinality(DotOnGlob(call.module)) >= 2
    /\ call.out.kind = "value"
    /\ ~endswith(call.out.val, <<"*">>)
    /\ ~fnmatch(call.module, WithStar(call.out.val))

(***************************************************************************)
(* Properties of KnownPatternFinder (SpecKP).                              *)
(***************************************************************************)
KPCalled == call.op = "find" /\ finder.kind = "value"

Prefix(m, k) == join(".", SubSeq(split(m, "."), 1, k))
NParts(m) == Len(split(m, "."))

\* The stored patterns that fully match the name
Matching(name) ==
    {i \in 1..Len(finder.val.known_patterns) :
        re_match(finder.val.known_patterns[i].regexp, name)}

\* The lengths of the dotted prefixes of m that some stored pattern matches
MatchedPrefixes(m) == {k \in 1..NParts(m) : Matching(Prefix(m, k)) # {}}

SectionIndex(name) == CHOOSE i \in 1..Len(SECTIONS) : SECTIONS[i] = name

\* The patterns stored for a section, in stored order
StoredFor(placement) ==
    LET mine == SelectSeq(finder.val.known_patterns, LAMBDA kp : kp.placement = placement)
    IN [i \in 1..Len(mine) |-> mine[i].regexp]

IsDirEntry(p) == endswith(p, <<SEP>>)

\* C6: the section returned is that of the first stored pattern that matches
\* the longest dotted prefix any pattern matches; the patterns are stored by
\* section in reverse registry order and in configured order within a section.
C6_LongestPrefixThenRegistration ==
    /\ KPCalled =>
        LET K == MatchedPrefixes(call.module)
        IN IF K = {} THEN call.out = None
           ELSE call.out =
                    Section(finder.val.known_patterns[
                                Min(Matching(Prefix(call.module, Max(K))))].placement)
    /\ finder.kind = "value" =>
        /\ \A i, j \in 1..Len(finder.val.known_patterns) :
              i < j => SectionIndex(finder.val.known_patterns[i].placement)
                           >= SectionIndex(finder.val.known_patterns[j].placement)
        /\ \A s \in 1..Len(SECTIONS) :
              LET entries == config_get(config, config_key(SECTIONS[s]), <<>>)
              IN (\A e \in 1..Len(entries) : ~IsDirEntry(entries[e])) =>
                    StoredFor(SECTIONS[s])
                        = [e \in 1..Len(entries) |-> known_pattern_regexp(entries[e])]
    /\ KPCalled /\ config = ("known_third_party" :> <<S_foo_bar>>) =>
        /\ call.module = S_foo_bar_baz => call.out = Section("THIRDPARTY")
        /\ call.module = S_foo_qux => call.out = None

\* A later-registered pattern wins because it matches a longer prefix.
C6_Witness ==
    /\ KPCalled
    /\ MatchedPrefixes(call.module) # {}
    /\ LET k == Max(MatchedPrefixes(call.module))
       IN /\ k > 1
          /\ \E j \in Matching(Prefix(call.module, 1)) : j < Min(Matching(Prefix(call.module, k)))
          /\ call.out = Section(finder.val.known_patterns[
                                    Min(Matching(Prefix(call.module, k)))].placement)
          /\ call.out # Section(finder.val.known_patterns[
                                    Min(Matching(Prefix(call.module, 1)))].placement)

\* C7 (as amended): with {known_third_party: ["vendor/"]} and vendor/ holding
\* the directories acme and b and a file, construction stores one pattern per
\* immediate sub-directory, for THIRDPARTY, and 'acme.sub' is THIRDPARTY.
C7_DirectoryExpansion ==
    (/\ config = ("known_third_party" :> <<S_vendor_dir>>)
     /\ fs = KPFsVendor
     /\ finder # Unbound) =>
        /\ finder.kind = "value"
        /\ finder.val.known_patterns
               = <<[regexp |-> <<"^">> \o S_acme \o <<"$">>, placement |-> "THIRDPARTY"],
                   [regexp |-> <<"^", "b", "$">>, placement |-> "THIRDPARTY"]>>
        /\ (call.op = "find" /\ call.module = S_acme_sub => call.out = Section("THIRDPARTY"))
        /\ (call.op = "find" /\ call.module = <<"b">> => call.out = Section("THIRDPARTY"))

\* C7 (as claimed): the same under the key known_thirdparty.
C7_AsClaimed ==
    (/\ config = ("known_thirdparty" :> <<S_vendor_dir>>)
     /\ fs = KPFsVendor
     /\ call.op = "find"
     /\ call.module = S_acme_sub) => call.out = Section("THIRDPARTY")

\* The scenario's finder, constructed and asked for 'acme.sub'.
C7_Witness ==
    /\ config = ("known_third_party" :> <<S_vendor_dir>>)
    /\ fs = KPFsVendor
    /\ KPCalled
    /\ call.module = S_acme_sub
    /\ call.out = Section("THIRDPARTY")

\* The configured patterns that are used as written and hold no '*'
PlainPatterns ==
    {p \in UNION {{config[k][i] : i \in 1..Len(config[k])} : k \in DOMAIN config} :
        ~IsDirEntry(p) /\ \A i \in 1..Len(p) : p[i] # "*"}

\* C9: '?' matches exactly one character, so a pattern without '*' matches
\* only names of its own length.
C9_QuestionMarkIsOneCharacter ==
    KPCalled =>
        \A p \in PlainPatterns : \A k \in 1..NParts(call.module) :
            re_match(known_pattern_regexp(p), Prefix(call.module, k))
                => Len(Prefix(call.module, k)) = Len(p)

(***************************************************************************)
(* ReqsBaseFinder, RequirementsFinder, PipfileFinder                       *)
(***************************************************************************)
S_requirements == <<"r", "e", "q", "u", "i", "r", "e", "m", "e", "n", "t", "s">>
S_Pipfile == <<"P", "i", "p", "f", "i", "l", "e">>
exts == <<<<".", "t", "x", "t">>, <<".", "i", "n">>>>

\* os.path.dirname
RECURSIVE rstrip_sep(_)
rstrip_sep(p) == IF p # <<>> /\ p[Len(p)] = SEP THEN rstrip_sep(SubSeq(p, 1, Len(p) - 1)) ELSE p

dirname(p) ==
    LET cut == {i \in 1..Len(p) : p[i] = SEP}
        head == IF cut = {} THEN <<>> ELSE SubSeq(p, 1, Max(cut))
    IN IF rstrip_sep(head) = <<>> THEN head ELSE rstrip_sep(head)

\* os.path.abspath of the finder's path: '.' is the working directory
abspath(e, path) == IF path = <<".">> THEN e.cwd ELSE path

has_ext(name) == \E i \in 1..Len(exts) : endswith(name, exts[i])

\* The inner loop over a requirements directory: the directory whose
\* listing it walks and joins the names to
subfiles(f, listed) ==
    LET names == SelectSeq(listdir(f, listed), has_ext)
    IN [i \in 1..Len(names) |-> path_join(listed, names[i])]

\* RequirementsFinder._get_files_from_dir: the paths it yields, in order
RECURSIVE requirements_files_loop(_, _, _)
requirements_files_loop(f, path, fnames) ==
    IF fnames = <<>> THEN <<>>
    ELSE LET fname == Head(fnames)
             full_path == path_join(path, fname)
             rest == requirements_files_loop(f, path, Tail(fnames))
         IN IF ~contains(fname, S_requirements) THEN rest
            ELSE IF isdir(f, full_path) THEN subfiles(f, path) \o rest
            ELSE IF isfile(f, full_path) /\ has_ext(fname) THEN <<full_path>> \o rest
            ELSE rest

RequirementsFinder_get_files_from_dir(f, path) ==
    requirements_files_loop(f, path, listdir(f, path))

\* PipfileFinder._get_files_from_dir
PipfileFinder_get_files_from_dir(f, path) ==
    IF \E i \in 1..Len(listdir(f, path)) : listdir(f, path)[i] = S_Pipfile
    THEN <<path>> ELSE <<>>

get_files_from_dir(cls, f, path) ==
    IF cls = "RequirementsFinder" THEN RequirementsFinder_get_files_from_dir(f, path)
    ELSE PipfileFinder_get_files_from_dir(f, path)

\* _get_parents: the path and every ancestor of it, up to the root
RECURSIVE get_parents(_)
get_parents(path) ==
    IF dirname(path) = path THEN <<path>> ELSE <<path>> \o get_parents(dirname(path))

start_dir(f, e, path) ==
    IF isfile(f, abspath(e, path)) THEN dirname(abspath(e, path)) ELSE abspath(e, path)

RECURSIVE files_of_dirs(_, _, _)
files_of_dirs(cls, f, dirs) ==
    IF dirs = <<>> THEN <<>>
    ELSE get_files_from_dir(cls, f, Head(dirs)) \o files_of_dirs(cls, f, Tail(dirs))

\* _get_files: the manifests found from the finder's path upwards
get_files(cls, f, e, path) == files_of_dirs(cls, f, get_parents(start_dir(f, e, path)))

get_files_raises(f, e, path) ==
    LET dirs == get_parents(start_dir(f, e, path))
    IN \E i \in 1..Len(dirs) : listdir_raises(f, dirs[i])

\* _get_names: what the manifest parser makes of a manifest
get_names_raises(e, path) == path \in DOMAIN e.manifest /\ ~e.manifest[path].ok
get_names(e, path) == IF path \in DOMAIN e.manifest THEN e.manifest[path].names ELSE <<>>

\* line.partition(":")
partition(s, c) ==
    LET cut == {i \in 1..Len(s) : s[i] = c}
    IN IF cut = {} THEN <<s, <<>>>>
       ELSE <<SubSeq(s, 1, Min(cut) - 1), SubSeq(s, Min(cut) + 1, Len(s))>>

\* _load_mapping: pypi name -> import name; nothing without pipreqs
RECURSIVE mapping_of_lines(_)
mapping_of_lines(lines) ==
    IF lines = <<>> THEN <<>>
    ELSE LET line == lines[Len(lines)]
         IN (partition(line, ":")[2] :> partition(line, ":")[1])
                @@ mapping_of_lines(SubSeq(lines, 1, Len(lines) - 1))

load_mapping(e) == IF ~e.pipreqs THEN <<>> ELSE mapping_of_lines(e.mapping_lines)

\* _normalize_name
normalize_name(mapping, name) ==
    LET mapped == IF DOMAIN mapping # {} /\ name \in DOMAIN mapping THEN mapping[name] ELSE name
    IN replace(lower(mapped), "-", <<"_">>)

RECURSIVE names_of_files(_, _, _)
names_of_files(e, mapping, files) ==
    IF files = <<>> THEN <<>>
    ELSE LET names == get_names(e, Head(files))
         IN [i \in 1..Len(names) |-> normalize_name(mapping, names[i])]
                \o names_of_files(e, mapping, Tail(files))

\* enabled = bool(parse_requirements), bool(Pipfile)
enabled(cls, e) == IF cls = "RequirementsFinder" THEN e.parse_requirements ELSE e.Pipfile

\* ReqsBaseFinder.__init__ with the default path '.'
ReqsBaseFinder_init(cls, cfg, f, e) ==
    LET self == [BaseFinder_init(cls, cfg) EXCEPT !.path = <<".">>, !.enabled = enabled(cls, e)]
        files == get_files(cls, f, e, self.path)
    IN IF ~self.enabled THEN Value(self)
       ELSE IF get_files_raises(f, e, self.path) THEN Raise("OSError")
       ELSE IF \E i \in 1..Len(files) : get_names_raises(e, files[i])
            THEN Raise("RequirementParseError")
       ELSE Value([self EXCEPT !.mapping = load_mapping(e),
                               !.names = names_of_files(e, load_mapping(e), files)])

\* A find that takes the name it matched off the list
reqs_find_consuming(self, module_name) ==
    LET name == lower(partition_head(module_name, "."))
    IN IF ~self.enabled \/ name = <<>> THEN Found(None, self)
       ELSE IF \E i \in 1..Len(self.names) : self.names[i] = name
            THEN Found(Section("THIRDPARTY"),
                       [self EXCEPT !.names = SelectSeq(self.names, LAMBDA n : n # name)])
       ELSE Found(None, self)

ReqsBaseFinder_find(self, module_name) ==
    LET name == lower(partition_head(module_name, "."))
    IN IF ~self.enabled THEN Found(None, self)
       ELSE IF name = <<>> THEN Found(None, self)
       ELSE IF \E i \in 1..Len(self.names) : self.names[i] = name
            THEN Found(Section("THIRDPARTY"), self)
       ELSE Found(None, self)

(***************************************************************************)
(* SpecReq: RequirementsFinder._get_files_from_dir on a directory /p whose *)
(* listing is drawn from a few entries: a directory named requirements     *)
(* (holding base.txt, dev.in and readme) and four files.                   *)
(***************************************************************************)
S_p == <<"/", "p">>
S_requirements_txt == <<"r", "e", "q", "u", "i", "r", "e", "m", "e", "n", "t", "s", ".", "t", "x", "t">>
S_requirements_in == <<"r", "e", "q", "u", "i", "r", "e", "m", "e", "n", "t", "s", ".", "i", "n">>
S_requirements_cfg == <<"r", "e", "q", "u", "i", "r", "e", "m", "e", "n", "t", "s", ".", "c", "f", "g">>
S_notes_txt == <<"n", "o", "t", "e", "s", ".", "t", "x", "t">>
S_base_txt == <<"b", "a", "s", "e", ".", "t", "x", "t">>
S_dev_in == <<"d", "e", "v", ".", "i", "n">>

ReqEntries == {S_requirements, S_requirements_txt, S_requirements_in, S_requirements_cfg,
               S_notes_txt}

ReqListings ==
    {l \in SeqsUpTo(ReqEntries, MaxEntries) : \A i, j \in 1..Len(l) : i # j => l[i] # l[j]}

ReqNode(name) ==
    IF name = S_requirements THEN Dir(<<S_base_txt, S_dev_in, S_readme>>) ELSE File

ReqFs(listing) ==
    LET present == {listing[i] : i \in 1..Len(listing)}
        inside == IF S_requirements \in present THEN {S_base_txt, S_dev_in, S_readme} ELSE {}
    IN (S_p :> Dir(listing))
           @@ [q \in {path_join(S_p, n) : n \in present} |->
                  ReqNode(CHOOSE n \in present : path_join(S_p, n) = q)]
           @@ [q \in {path_join(path_join(S_p, S_requirements), n) : n \in inside} |-> File]

InitReq ==
    /\ fs \in {ReqFs(l) : l \in ReqListings}
    /\ call = NoCall
    /\ config = NoConfig /\ env = NoEnv /\ arg = NoArg /\ mgr = NoMgr
    /\ finder = Unbound /\ seen = NoSeen

ReqScan(path) ==
    /\ ~listdir_raises(fs, path)
    /\ call' = Call("scan", path, Value(RequirementsFinder_get_files_from_dir(fs, path)), 0)
    /\ UNCHANGED <<config, fs, env, arg, mgr, finder, seen>>

NextReq == \E path \in {S_p, path_join(S_p, S_requirements)} : ReqScan(path)

SpecReq == InitReq /\ [][NextReq]_vars

\* How often x occurs in the sequence
Count(seq, x) == Cardinality({i \in 1..Len(seq) : seq[i] = x})

\* What the entry `name` of directory d contributes to the manifests of d
ManifestsOf(d, name) ==
    LET full == path_join(d, name)
    IN IF ~contains(name, S_requirements) THEN {}
       ELSE IF isdir(fs, full)
            THEN {path_join(full, fs[full].list[i]) :
                     i \in {j \in 1..Len(fs[full].list) :
                               /\ has_ext(fs[full].list[j])
                               /\ isfile(fs, path_join(full, fs[full].list[j]))}}
       ELSE IF isfile(fs, full) /\ has_ext(name) THEN {full}
       ELSE {}

Manifests(d) == UNION {ManifestsOf(d, fs[d].list[i]) : i \in 1..Len(fs[d].list)}

\* C10: scanning d yields, for every entry of d whose name holds
\* 'requirements', the .txt and .in files inside it when it is a directory
\* and the entry itself, once, when it is a .txt or .in file; nothing else.
C10_ManifestDiscovery ==
    call.op = "scan" =>
        /\ {call.out.val[i] : i \in 1..Len(call.out.val)} = Manifests(call.module)
        /\ \A i \in 1..Len(fs[call.module].list) :
              LET full == path_join(call.module, fs[call.module].list[i])
              IN full \in Manifests(call.module) /\ isfile(fs, full)
                    => Count(call.out.val, full) = 1

(***************************************************************************)
(* PathFinder                                                              *)
(***************************************************************************)
S_site_packages == <<"s", "i", "t", "e", "-", "p", "a", "c", "k", "a", "g", "e", "s">>
S_dist_packages == <<"d", "i", "s", "t", "-", "p", "a", "c", "k", "a", "g", "e", "s">>

\* utils.exists_case_sensitive, on a case-sensitive filesystem
exists_case_sensitive(f, p) == exists(f, p)

\* A set as a sequence, in some order
RECURSIVE SetToSeq(_)
SetToSeq(S) == IF S = {} THEN <<>> ELSE LET x == CHOOSE y \in S : TRUE IN <<x>> \o SetToSeq(S \ {x})

\* glob.glob(pattern): the existing paths whose components match the
\* pattern's; a wildcard does not match a leading dot
component_match(name, pat) ==
    /\ fnmatch(name, pat)
    /\ (pat # <<>> /\ Head(pat) \in {"*", "?"}) => ~startswith(name, <<".">>)

glob(f, pattern) ==
    SetToSeq({q \in DOMAIN f :
                 LET qs == split(q, SEP)
                     ps == split(pattern, SEP)
                 IN /\ Len(qs) = Len(ps)
                    /\ \A i \in 1..Len(ps) : component_match(qs[i], ps[i])})

RECURSIVE append_new(_, _)
append_new(paths, found) ==
    IF found = <<>> THEN paths
    ELSE append_new(IF \E i \in 1..Len(paths) : paths[i] = Head(found)
                    THEN paths ELSE Append(paths, Head(found)),
                    Tail(found))

\* '/lib/python*/site-packages', '/lib/python*/*/site-packages', '/src/*'
G_lib_site == <<"/", "l", "i", "b", "/", "p", "y", "t", "h", "o", "n", "*", "/">> \o S_site_packages
G_lib_sub_site ==
    <<"/", "l", "i", "b", "/", "p", "y", "t", "h", "o", "n", "*", "/", "*", "/">> \o S_site_packages
G_src == <<"/", "s", "r", "c", "/", "*">>

PathFinder_init(cfg, f, e) ==
    LET self == BaseFinder_init("PathFinder", cfg)
        paths0 == [e.sys_path EXCEPT ![1] = e.cwd]
        virtual_env == IF config_get(cfg, "virtual_env", <<>>) # <<>>
                       THEN cfg["virtual_env"] ELSE e.VIRTUAL_ENV
        paths1 == append_new(paths0, glob(f, virtual_env \o G_lib_site))
        paths2 == append_new(paths1, glob(f, virtual_env \o G_lib_sub_site))
        paths3 == paths2 \o SelectSeq(glob(f, virtual_env \o G_src), LAMBDA q : isdir(f, q))
        paths4 == IF virtual_env # <<>> THEN paths3 ELSE paths0
    IN Value([self EXCEPT
                !.paths = append_new(paths4, <<e.stdlib>>),
                !.virtual_env = virtual_env,
                !.virtual_env_src = IF virtual_env # <<>>
                                    THEN virtual_env \o <<"/", "s", "r", "c", "/">> ELSE <<>>,
                !.stdlib_lib_prefix = e.stdlib,
                !.ext_suffix = IF e.EXT_SUFFIX # <<>> THEN e.EXT_SUFFIX ELSE <<".", "s", "o">>])

\* The section a module found under prefix belongs to
path_section(self, prefix) ==
    IF contains(prefix, S_site_packages) THEN Section("THIRDPARTY")
    ELSE IF contains(prefix, S_dist_packages) THEN Section("THIRDPARTY")
    ELSE IF self.virtual_env # <<>> /\ contains(prefix, self.virtual_env_src)
         THEN Section("THIRDPARTY")
    ELSE IF startswith(prefix, self.stdlib_lib_prefix) THEN Section("STDLIB")
    ELSE IF "default_section" \in DOMAIN self.config
         THEN Section(self.config["default_section"])
    ELSE Raise("KeyError")

RECURSIVE path_loop(_, _, _, _)
path_loop(self, f, prefixes, module_name) ==
    IF prefixes = <<>> THEN None
    ELSE LET prefix == Head(prefixes)
             package_path == join(SEP, <<prefix, split(module_name, ".")[1]>>)
             is_module == \/ exists_case_sensitive(f, package_path \o <<".", "p", "y">>)
                          \/ exists_case_sensitive(f, package_path \o <<".", "s", "o">>)
                          \/ exists_case_sensitive(f, package_path \o self.ext_suffix)
             is_package == exists_case_sensitive(f, package_path) /\ isdir(f, package_path)
         IN IF is_module \/ is_package THEN path_section(self, prefix)
            ELSE path_loop(self, f, Tail(prefixes), module_name)

PathFinder_find(self, f, module_name) == Found(path_loop(self, f, self.paths, module_name), self)

(***************************************************************************)
(* DefaultFinder                                                           *)
(***************************************************************************)
DefaultFinder_find(self, module_name) ==
    IF "default_section" \in DOMAIN self.config
    THEN Found(Section(self.config["default_section"]), self)
    ELSE Found(Raise("KeyError"), self)

(***************************************************************************)
(* FindersManager                                                          *)
(***************************************************************************)
default_finders_classes ==
    <<"ForcedSeparateFinder", "LocalFinder", "KnownPatternFinder", "PathFinder",
      "PipfileFinder", "RequirementsFinder", "DefaultFinder">>

\* finder(config, sections): the object, or the exception raised
Finder_init(cls, cfg, f, e) ==
    CASE cls = "KnownPatternFinder" -> KnownPatternFinder_init(cfg, f)
      [] cls = "PathFinder" -> PathFinder_init(cfg, f, e)
      [] cls \in {"PipfileFinder", "RequirementsFinder"} -> ReqsBaseFinder_init(cls, cfg, f, e)
      [] OTHER -> Value(BaseFinder_init(cls, cfg))

\* finder.find(module_name)
Finder_find(self, f, module_name) ==
    CASE self.cls = "ForcedSeparateFinder" -> ForcedSeparateFinder_find(self, module_name)
      [] self.cls = "LocalFinder" -> LocalFinder_find(self, module_name)
      [] self.cls = "KnownPatternFinder" -> KnownPatternFinder_find(self, module_name)
      [] self.cls = "PathFinder" -> PathFinder_find(self, f, module_name)
      [] self.cls \in {"PipfileFinder", "RequirementsFinder"} ->
            ReqsBaseFinder_find(self, module_name)
      [] OTHER -> DefaultFinder_find(self, module_name)

\* The loop giving up at the first finder that raises
RECURSIVE init_loop_stops(_, _, _, _)
init_loop_stops(cfg, f, e, finders) ==
    IF finders = <<>> THEN <<>>
    ELSE LET made == Finder_init(Head(finders), cfg, f, e)
         IN IF made.kind = "raise" THEN <<>>
            ELSE <<made.val>> \o init_loop_stops(cfg, f, e, Tail(finders))

\* The loop of __init__: a finder that raises is left out
RECURSIVE init_loop(_, _, _, _)
init_loop(cfg, f, e, finders) ==
    IF finders = <<>> THEN <<>>
    ELSE LET made == Finder_init(Head(finders), cfg, f, e)
         IN (IF made.kind = "raise" THEN <<>> ELSE <<made.val>>)
                \o init_loop(cfg, f, e, Tail(finders))

\* __init__(config, sections, finders): `finders is None` reads self.finders,
\* which no class or instance attribute provides yet
FindersManager_init(cfg, finders, f, e) ==
    IF finders = None
    THEN [status |-> "raised", verbose |-> config_get(cfg, "verbose", FALSE), finders |-> <<>>]
    ELSE [status |-> "ready", verbose |-> config_get(cfg, "verbose", FALSE),
          finders |-> init_loop(cfg, f, e, finders.val)]

\* The loop of find from finder i on.  `section` is the local variable: it
\* is unbound until a finder's find has returned.  In the handler, verbose
\* formats finder.__name__, which a finder object does not have.
RECURSIVE find_loop(_, _, _, _, _)
find_loop(self, f, module_name, i, section) ==
    IF i > Len(self.finders) THEN [out |-> None, n |-> i - 1, self |-> self]
    ELSE LET r == Finder_find(self.finders[i], f, module_name)
             after == [self EXCEPT !.finders[i] = r.self]
             now == IF r.out.kind = "raise" THEN section ELSE r.out
         IN IF r.out.kind = "raise" /\ self.verbose
            THEN [out |-> Raise("AttributeError"), n |-> i, self |-> after]
            ELSE IF now = Unbound
                 THEN [out |-> Raise("UnboundLocalError"), n |-> i, self |-> after]
            ELSE IF now # None THEN [out |-> now, n |-> i, self |-> after]
            ELSE find_loop(after, f, module_name, i + 1, now)

FindersManager_find(self, f, module_name) == find_loop(self, f, module_name, 1, Unbound)

(***************************************************************************)
(* Spec: a FindersManager, its construction and calls of its find.         *)
(*                                                                         *)
(* The working directory is /p, holding requirements.txt and b.py; the     *)
(* root holds a Pipfile; /lib is the standard library and /v a virtual     *)
(* environment with the checkout /v/src/c.                                 *)
(***************************************************************************)
S_root == <<SEP>>
S_lib == <<"/", "l", "i", "b">>
S_v == <<"/", "v">>

S_b_py == <<"b", ".", "p", "y">>
S_src == <<"s", "r", "c">>

MFs ==
    (S_root :> Dir(<<<<"p">>, <<"l", "i", "b">>, <<"v">>, S_Pipfile>>))
        @@ (path_join(S_root, S_Pipfile) :> File)
        @@ (S_p :> Dir(<<S_requirements_txt, S_b_py>>))
        @@ (path_join(S_p, S_requirements_txt) :> File)
        @@ (path_join(S_p, S_b_py) :> File)
        @@ (S_lib :> Dir(<<S_site_packages>>))
        @@ (path_join(S_lib, S_site_packages) :> Dir(<<>>))
        @@ (S_v :> Dir(<<S_src>>))
        @@ (path_join(S_v, S_src) :> Dir(<<<<"c">>>>))
        @@ (path_join(path_join(S_v, S_src), <<"c">>) :> Dir(<<>>))

\* What the interpreter and the optional packages provide
BaseEnv ==
    [cwd |-> S_p, sys_path |-> <<<<"/", "b", "i", "n">>, S_lib, path_join(S_lib, S_site_packages)>>,
     stdlib |-> S_lib,
     VIRTUAL_ENV |-> <<>>, EXT_SUFFIX |-> <<>>,
     parse_requirements |-> FALSE, Pipfile |-> FALSE, pipreqs |-> FALSE,
     mapping_lines |-> <<>>, manifest |-> <<>>]

\* Everything installed; the manifests parse: A required in /p, B in /
EnvFull ==
    [BaseEnv EXCEPT !.VIRTUAL_ENV = S_v, !.parse_requirements = TRUE, !.Pipfile = TRUE,
                    !.pipreqs = TRUE, !.mapping_lines = <<<<"b", ":", "B">>>>,
                    !.manifest = (path_join(S_p, S_requirements_txt) :> [ok |-> TRUE, names |-> <<<<"A">>>>])
                                     @@ (S_root :> [ok |-> TRUE, names |-> <<<<"B">>>>])]

\* requirements.txt does not parse
EnvBroken ==
    [BaseEnv EXCEPT !.parse_requirements = TRUE,
                    !.manifest = (path_join(S_p, S_requirements_txt)
                                      :> [ok |-> FALSE, names |-> <<>>])]

MEnvs == {BaseEnv, EnvFull, EnvBroken}

MModules == {<<"a">>, <<".", "a">>, <<"b">>}

\* The optional parts of a configuration
ForcedParts == {NoConfig, "forced_separate" :> <<<<"a">>>>}
\* (no vendor/ exists under the working directory, so listing it raises)
KnownParts == {"known_first_party" :> <<<<"a">>>>, "known_first_party" :> <<S_vendor_dir>>}
DefaultParts == {NoConfig, "default_section" :> "FIRSTPARTY"}
VerboseParts == {NoConfig, "verbose" :> TRUE}

MConfigs ==
    {a @@ b @@ c @@ d : a \in ForcedParts, b \in KnownParts, c \in DefaultParts, d \in VerboseParts}

FinderClasses == {default_finders_classes[i] : i \in 1..Len(default_finders_classes)}

\* The `finders` argument: None, or a list of distinct finder classes
MArgs ==
    {None} \cup
    {Value(l) : l \in {x \in SeqsUpTo(FinderClasses, MaxFinders) :
                          x # <<>> /\ \A i, j \in 1..Len(x) : i # j => x[i] # x[j]}}

Init ==
    /\ config \in MConfigs
    /\ fs = MFs
    /\ env \in MEnvs
    /\ arg \in MArgs
    /\ mgr = NoMgr
    /\ call = NoCall
    /\ seen = NoSeen
    /\ finder = Unbound

\* FindersManager(config, sections, finders)
Construct ==
    /\ mgr.status = "new"
    /\ mgr' = FindersManager_init(config, arg, fs, env)
    /\ call' = Call("init", <<>>, None, 0)
    /\ UNCHANGED <<config, fs, env, arg, finder, seen>>

\* manager.find(m); seen keeps the outcome of the first call for each name
Find(m) ==
    /\ mgr.status = "ready"
    /\ LET r == FindersManager_find(mgr, fs, m)
       IN /\ mgr' = r.self
          /\ call' = [Call("find", m, r.out, r.n) EXCEPT !.again = m \in DOMAIN seen]
          /\ seen' = IF m \in DOMAIN seen THEN seen ELSE (m :> r.out) @@ seen
    /\ UNCHANGED <<config, fs, env, arg, finder>>

Next == Construct \/ \E m \in MModules : Find(m)

Spec == Init /\ [][Next]_vars

(***************************************************************************)
(* Properties of FindersManager (Spec).                                    *)
(***************************************************************************)
Constructed == mgr.status # "new"
FindCalled == call.op = "find"

\* What finder i of the manager does for module name m
AnswerAt(i, m) == Finder_find(mgr.finders[i], fs, m).out

\* The finders that return a section for m
Answering(m) == {i \in 1..Len(mgr.finders) : AnswerAt(i, m).kind = "value"}

\* The finders whose find raises for m before any finder has answered
RaisingFirst(m) ==
    {i \in 1..Len(mgr.finders) :
        AnswerAt(i, m).kind = "raise" /\ \A j \in 1..i : j \notin Answering(m)}

\* C1: find never raises; a finder whose find raises, at any position, counts
\* as giving no answer and the next finder is consulted.
C1_FindNeverRaises ==
    FindCalled =>
        /\ call.out.kind # "raise"
        /\ \A i \in RaisingFirst(call.module) :
              call.n >= (IF i < Len(mgr.finders) THEN i + 1 ELSE i)

\* The classes of the argument whose constructors succeed, in order
Succeeding == SelectSeq(arg.val, LAMBDA c : Finder_init(c, config, fs, env).kind = "value")

\* C2: with an explicit list of constructors the manager constructor does not
\* raise, and the manager's finders are the objects of the constructors that
\* succeeded, in the order of the list.
C2_BestEffortConstruction ==
    (arg # None /\ Constructed) =>
        /\ mgr.status = "ready"
        /\ [i \in 1..Len(mgr.finders) |-> mgr.finders[i].cls] = Succeeding
        /\ call.op = "init" =>
              mgr.finders = [i \in 1..Len(Succeeding) |->
                                Finder_init(Succeeding[i], config, fs, env).val]

\* A verbose manager built from a list whose first constructor raised and
\* whose second succeeded.
C2_Witness ==
    /\ arg # None
    /\ mgr.status = "ready"
    /\ call.op = "init"
    /\ mgr.verbose
    /\ Len(arg.val) = 2
    /\ Finder_init(arg.val[1], config, fs, env).kind = "raise"
    /\ Len(mgr.finders) = 1
    /\ mgr.finders[1].cls = arg.val[2]

DefaultSucceeding ==
    SelectSeq(default_finders_classes, LAMBDA c : Finder_init(c, config, fs, env).kind = "value")

\* C3: a manager constructed without a finder list is built from the default
\* order ForcedSeparate, Local, KnownPattern, Path, Pipfile, Requirements,
\* Default, and gives a name matching both a forced-separate pattern and a
\* known pattern the forced-separate result.
C3_DefaultOrder ==
    (arg = None /\ Constructed) =>
        /\ mgr.status = "ready"
        /\ [i \in 1..Len(mgr.finders) |-> mgr.finders[i].cls] = DefaultSucceeding
        /\ (/\ FindCalled
            /\ call.module = <<"a">>
            /\ config_get(config, "forced_separate", <<>>) = <<<<"a">>>>
            /\ config_get(config, "known_first_party", <<>>) = <<<<"a">>>>)
               => call.out = Value(<<"a">>)

\* C4: find consults the finders in order and returns the answer of the first
\* finder that gives one, consulting none after it; when no finder answers it
\* consults them all and returns no answer.
C4_FirstAnswerWins ==
    FindCalled =>
        IF Answering(call.module) = {}
        THEN call.out = None /\ call.n = Len(mgr.finders)
        ELSE /\ call.out = AnswerAt(Min(Answering(call.module)), call.module)
             /\ call.n = Min(Answering(call.module))

\* C8: calls of find leave the manager's finder sequence and every finder's
\* derived state as construction made them, and a later call with the same
\* module name returns what the first one returned.
C8_FindChangesNothing ==
    /\ mgr.status = "ready" => mgr = FindersManager_init(config, arg, fs, env)
    /\ FindCalled => call.module \in DOMAIN seen /\ call.out = seen[call.module]

\* A repeated call answered by a RequirementsFinder from its loaded names,
\* behind a PathFinder holding its candidate paths.
C8_Witness ==
    /\ FindCalled
    /\ call.again
    /\ call.out = Section("THIRDPARTY")
    /\ call.n = 2
    /\ mgr.finders[1].cls = "PathFinder" /\ mgr.finders[1].paths # <<>>
    /\ mgr.finders[2].cls = "RequirementsFinder" /\ mgr.finders[2].names # <<>>

====
